---- MODULE Spec2Model ----
(***************************************************************************)
(* Model of the timesheet type layer: the Jira time-string helpers         *)
(* (types/jira.ts), the zod schemas of the grouping configuration and of   *)
(* the timesheet entry (types/grouping.ts, types/core.ts), the validation  *)
(* wrappers built on them (validation utilities) and the group tree        *)
(* builder that the GroupingConfig / GroupNode declarations describe.      *)
(*                                                                         *)
(* The program has no long-lived state: every exported function is pure.   *)
(* A behaviour is one call made by a caller: the function called (fn),     *)
(* the arguments it is applied to and, once it has been applied (op),      *)
(* what it produced.  Every action is one call of one exported function.   *)
(***************************************************************************)
EXTENDS Integers, Sequences, FiniteSets, TLC

VARIABLES fn, op, hoursIn, timeStr, parsed, parts, schemaName, errorMessage, data, outcome,
          entries, config, forest, permuted, forest2, text, clean, clock

vars == <<fn, op, hoursIn, timeStr, parsed, parts, schemaName, errorMessage, data, outcome,
          entries, config, forest, permuted, forest2, text, clean, clock>>

(***************************************************************************)
(* Bounds of the explored inputs.                                          *)
(***************************************************************************)
\* hours passed to formatHoursAsJiraTime range over 0 .. MaxWholeHours + 3599/3600
MaxWholeHours == 10
\* each of the components D, H, M of a composed Jira time string is in 0 .. MaxComponent
MaxComponent == 11
\* a grouping configuration handed to validation has at most MaxLevels levels
MaxLevels == 2
\* an array handed to validateTimesheetEntries has at most MaxEntries elements
MaxEntries == 2
\* the builder is given at most MaxBuildEntries entries and MaxBuildLevels levels
MaxBuildEntries == 3
MaxBuildLevels == 2
\* a string handed to a sanitizer has at most MaxTextLen characters
MaxTextLen == 4
\* the clock advances by at most MaxClockAdvance ms between two reads of one call
MaxClockAdvance == 2

(***************************************************************************)
(* Units.  A number of hours is represented exactly: the argument of       *)
(* formatHoursAsJiraTime as a whole number of seconds (hours * 3600), the  *)
(* result of parseJiraTimeSpent as a whole number of minutes (hours * 60). *)
(***************************************************************************)
MinutesPerHour == 60
HoursPerDay == 8
SecondsPerMinute == MinutesPerHour
SecondsPerHour == MinutesPerHour * SecondsPerMinute

NoValue == "none"

(***************************************************************************)
(* Strings of the time helpers are sequences of one-character strings.     *)
(***************************************************************************)
Digits == <<"0", "1", "2", "3", "4", "5", "6", "7", "8", "9">>

IsDigit(c) == \E i \in 1..10 : Digits[i] = c

DigitValue(c) == (CHOOSE i \in 1..10 : Digits[i] = c) - 1

\* `${n}` for a non-negative integer n: its decimal digits
RECURSIVE NumberToString(_)
NumberToString(n) ==
    IF n < 10 THEN <<Digits[n + 1]>>
    ELSE NumberToString(n \div 10) \o <<Digits[(n % 10) + 1]>>

\* parseInt(ds, 10) for a string of decimal digits
RECURSIVE parseInt(_)
parseInt(ds) ==
    IF Len(ds) = 0 THEN 0
    ELSE 10 * parseInt(SubSeq(ds, 1, Len(ds) - 1)) + DigitValue(ds[Len(ds)])

\* parts.join(' ')
RECURSIVE JoinWithSpace(_)
JoinWithSpace(ps) ==
    IF Len(ps) = 0 THEN << >>
    ELSE IF Len(ps) = 1 THEN ps[1]
    ELSE ps[1] \o <<" ">> \o JoinWithSpace(Tail(ps))

(***************************************************************************)
(* timeSpent.match(/(\d+)<unit>/): the leftmost position i from which a    *)
(* run of one or more digits s[i..j] is directly followed by the unit      *)
(* letter.  The result is the captured digits, or NoValue (null) when      *)
(* there is no match.                                                      *)
(***************************************************************************)
MatchesAt(s, i, j, unit) ==
    /\ i <= j
    /\ j + 1 <= Len(s)
    /\ \A k \in i..j : IsDigit(s[k])
    /\ s[j + 1] = unit

HasMatch(s, unit) == \E i \in 1..Len(s) : \E j \in i..Len(s) : MatchesAt(s, i, j, unit)

MatchUnit(s, unit) ==
    IF ~HasMatch(s, unit) THEN NoValue
    ELSE LET i == CHOOSE a \in 1..Len(s) :
                    /\ \E j \in a..Len(s) : MatchesAt(s, a, j, unit)
                    /\ \A b \in 1..(a - 1) : ~\E j \in b..Len(s) : MatchesAt(s, b, j, unit)
             j == CHOOSE e \in i..Len(s) :
                    /\ MatchesAt(s, i, e, unit)
                    /\ \A f \in (e + 1)..Len(s) : ~MatchesAt(s, i, f, unit)
         IN  SubSeq(s, i, j)

\* a variant that reads a day as 24 hours
parseJiraTimeSpentDay24(timeSpent) ==
    LET dayMatch == MatchUnit(timeSpent, "d")
        hourMatch == MatchUnit(timeSpent, "h")
        minuteMatch == MatchUnit(timeSpent, "m")
        days == IF dayMatch # NoValue THEN parseInt(dayMatch) ELSE 0
        hours == IF hourMatch # NoValue THEN parseInt(hourMatch) ELSE 0
        minutes == IF minuteMatch # NoValue THEN parseInt(minuteMatch) ELSE 0
    IN  (days * 24) * MinutesPerHour + hours * MinutesPerHour + minutes

\* parseJiraTimeSpent, result in minutes (hours * 60)
parseJiraTimeSpent(timeSpent) ==
    LET dayMatch == MatchUnit(timeSpent, "d")
        hourMatch == MatchUnit(timeSpent, "h")
        minuteMatch == MatchUnit(timeSpent, "m")
        days == IF dayMatch # NoValue THEN parseInt(dayMatch) ELSE 0
        hours == IF hourMatch # NoValue THEN parseInt(hourMatch) ELSE 0
        minutes == IF minuteMatch # NoValue THEN parseInt(minuteMatch) ELSE 0
    IN  (days * HoursPerDay) * MinutesPerHour + hours * MinutesPerHour + minutes

\* Math.floor(hours) for hours given in seconds
WholeHours(secs) == secs \div SecondsPerHour

\* Math.round((hours - wholeHours) * 60): the nearest minute, halves up
RoundedMinutes(secs) ==
    ((secs % SecondsPerHour) + (SecondsPerMinute \div 2)) \div SecondsPerMinute

\* a variant that omits the minutes part once it has rounded up to 60
formatHoursDropFullMinutes(secs) ==
    LET wholeHours == WholeHours(secs)
        minutes == RoundedMinutes(secs)
        hPart == IF wholeHours > 0 THEN <<NumberToString(wholeHours) \o <<"h">>>> ELSE << >>
        mPart == IF minutes > 0 /\ minutes < MinutesPerHour
                 THEN <<NumberToString(minutes) \o <<"m">>>> ELSE << >>
    IN  IF wholeHours = 0 /\ minutes = 0 THEN <<"0", "m">>
        ELSE JoinWithSpace(hPart \o mPart)

\* formatHoursAsJiraTime, argument in seconds (hours * 3600)
formatHoursAsJiraTime(secs) ==
    LET wholeHours == WholeHours(secs)
        minutes == RoundedMinutes(secs)
        hPart == IF wholeHours > 0 THEN <<NumberToString(wholeHours) \o <<"h">>>> ELSE << >>
        mPart == IF minutes > 0 THEN <<NumberToString(minutes) \o <<"m">>>> ELSE << >>
    IN  IF wholeHours = 0 /\ minutes = 0 THEN <<"0", "m">>
        ELSE JoinWithSpace(hPart \o mPart)

(***************************************************************************)
(* Jira time strings composed by a caller: any subset of the components    *)
(* "<D>d", "<H>h", "<M>m" in any order, separated by one space.            *)
(***************************************************************************)
Units == {"d", "h", "m"}

\* the orders in which a subset of the units can be written
UnitOrders ==
    {o \in UNION {[1..n -> Units] : n \in 0..3} :
        \A i, j \in DOMAIN o : i # j => o[i] # o[j]}

ComposeTime(order, val) ==
    JoinWithSpace([i \in DOMAIN order |-> NumberToString(val[order[i]]) \o <<order[i]>>])

\* strings that carry no d/h/m component at all
PlainStrings == {<< >>, <<"4">>, <<"1", "2">>, <<"d">>, <<"h", " ", "m">>, <<"3", " ", "h">>, <<"7", "s">>}

(***************************************************************************)
(* JavaScript values handed to the validators (data: unknown).  A value    *)
(* carries its runtime type; an object is a record of its own keys, an     *)
(* absent key reads as undefined.  A number n/3600 is represented by the   *)
(* integer n, so that seconds / 3600 is exact.                             *)
(***************************************************************************)
Undefined == [t |-> "undefined"]
Str(s) == [t |-> "string", v |-> s]
Bool(b) == [t |-> "boolean", v |-> b]
Num(n) == [t |-> "number", v |-> n * SecondsPerHour]
NumSecondsAsHours(secs) == [t |-> "number", v |-> secs]
Arr(items) == [t |-> "array", v |-> items]
Obj(fields) == [t |-> "object", v |-> fields]

\* an object literal in which the keys bound to undefined are left out
ObjOmitting(fields) ==
    Obj([k \in {x \in DOMAIN fields : fields[x].t # "undefined"} |-> fields[k]])

Get(o, key) == IF key \in DOMAIN o.v THEN o.v[key] ELSE Undefined

Range(f) == {f[i] : i \in DOMAIN f}

(***************************************************************************)
(* zod schemas as data, and schema.safeParse: the list of issues of a      *)
(* value (empty when it matches) and the parsed value.  An object schema   *)
(* checks its keys in declaration order and strips unknown keys.           *)
(***************************************************************************)
ZString == [k |-> "string", check |-> "none"]
ZEmail == [k |-> "string", check |-> "email"]
ZUrl == [k |-> "string", check |-> "url"]
ZNumber == [k |-> "number", positive |-> FALSE]
ZNumberPositive == [k |-> "number", positive |-> TRUE]
ZNumberPositiveMax(max) == [k |-> "number", positive |-> TRUE, max |-> max]
ZBoolean == [k |-> "boolean"]
ZAny == [k |-> "any"]
ZEnum(values) == [k |-> "enum", values |-> values]
ZOptional(inner) == [k |-> "optional", inner |-> inner]
ZArray(item) == [k |-> "array", item |-> item, min |-> 0]
ZArrayNonEmpty(item) == [k |-> "array", item |-> item, min |-> 1]
ZObject(keys, shape) == [k |-> "object", keys |-> keys, shape |-> shape]

\* the strings z.string().email() / .url() accept, among those explored
WellFormedEmails == {"ann@example.com", "bob@example.com"}
WellFormedUrls == {"https://example.com/a.png"}

InvalidType(expected, value, path) ==
    <<[path |-> path,
       message |-> IF value.t = "undefined" THEN "Required"
                   ELSE "Expected " \o expected \o ", received " \o value.t]>>

RECURSIVE Issues(_, _, _), ItemIssues(_, _, _, _), KeyIssues(_, _, _, _)
Issues(schema, value, path) ==
    CASE schema.k = "optional" ->
            IF value.t = "undefined" THEN << >> ELSE Issues(schema.inner, value, path)
      [] schema.k = "string" ->
            IF value.t # "string" THEN InvalidType("string", value, path)
            ELSE IF schema.check = "email" /\ value.v \notin WellFormedEmails
                 THEN <<[path |-> path, message |-> "Invalid email"]>>
            ELSE IF schema.check = "url" /\ value.v \notin WellFormedUrls
                 THEN <<[path |-> path, message |-> "Invalid url"]>>
            ELSE << >>
      [] schema.k = "number" ->
            IF value.t # "number" THEN InvalidType("number", value, path)
            ELSE IF schema.positive /\ ~(value.v > 0)
                 THEN <<[path |-> path, message |-> "Number must be greater than 0"]>>
            ELSE IF "max" \in DOMAIN schema /\ value.v > schema.max * SecondsPerHour
                 THEN <<[path |-> path, message |-> "Number must be less than or equal to "
                                                    \o ToString(schema.max)]>>
            ELSE << >>
      [] schema.k = "any" -> << >>
      [] schema.k = "boolean" ->
            IF value.t # "boolean" THEN InvalidType("boolean", value, path) ELSE << >>
      [] schema.k = "enum" ->
            IF value.t # "string" THEN InvalidType("enum", value, path)
            ELSE IF value.v \notin schema.values
                 THEN <<[path |-> path,
                         message |-> "Invalid enum value, received '" \o value.v \o "'"]>>
            ELSE << >>
      [] schema.k = "array" ->
            IF value.t # "array" THEN InvalidType("array", value, path)
            ELSE (IF Len(value.v) < schema.min
                  THEN <<[path |-> path,
                          message |-> "Array must contain at least 1 element(s)"]>>
                  ELSE << >>)
                 \o ItemIssues(schema.item, value.v, 1, path)
      [] schema.k = "object" ->
            IF value.t # "object" THEN InvalidType("object", value, path)
            ELSE KeyIssues(schema, value, 1, path)

\* the issues of the array items i, i+1, ...; item i has path segment i-1
ItemIssues(item, values, i, path) ==
    IF i > Len(values) THEN << >>
    ELSE Issues(item, values[i], Append(path, ToString(i - 1)))
         \o ItemIssues(item, values, i + 1, path)

\* the issues of the object keys number i, i+1, ... of the shape
KeyIssues(schema, value, i, path) ==
    IF i > Len(schema.keys) THEN << >>
    ELSE Issues(schema.shape[schema.keys[i]], Get(value, schema.keys[i]),
                Append(path, schema.keys[i]))
         \o KeyIssues(schema, value, i + 1, path)

\* result.data of a successful safeParse
RECURSIVE Parsed(_, _)
Parsed(schema, value) ==
    CASE schema.k = "optional" ->
            IF value.t = "undefined" THEN value ELSE Parsed(schema.inner, value)
      [] schema.k = "array" ->
            Arr([i \in 1..Len(value.v) |-> Parsed(schema.item, value.v[i])])
      [] schema.k = "object" ->
            Obj([key \in (DOMAIN value.v) \cap Range(schema.keys) |->
                    Parsed(schema.shape[key], value.v[key])])
      [] OTHER -> value

\* schema.safeParse(data)
safeParse(schema, value) ==
    LET issues == Issues(schema, value, << >>)
    IN  IF issues = << >>
        THEN [success |-> TRUE, data |-> Parsed(schema, value)]
        ELSE [success |-> FALSE, errors |-> issues]

(***************************************************************************)
(* The schemas of types/grouping.ts                                        *)
(***************************************************************************)
GroupingDimensionSchema == ZEnum({"project", "user", "issueType", "status", "date", "issue"})

DateGroupingTypeSchema == ZEnum({"day", "week", "month", "quarter", "year"})

SortOrderSchema == ZEnum({"asc", "desc"})

SortBySchema == ZEnum({"name", "hours", "count", "date"})

GroupingLevelSchema ==
    ZObject(<<"dimension", "sortBy", "sortOrder", "dateGroupingType", "expanded">>,
            [dimension |-> GroupingDimensionSchema,
             sortBy |-> SortBySchema,
             sortOrder |-> SortOrderSchema,
             dateGroupingType |-> ZOptional(DateGroupingTypeSchema),
             expanded |-> ZBoolean])

\* a variant that requires at least one level
GroupingConfigSchemaNonEmpty ==
    ZObject(<<"levels", "showSubtotals", "showGrandTotal", "collapseEmptyGroups">>,
            [levels |-> ZArrayNonEmpty(GroupingLevelSchema),
             showSubtotals |-> ZBoolean,
             showGrandTotal |-> ZBoolean,
             collapseEmptyGroups |-> ZBoolean])

GroupingConfigSchema ==
    ZObject(<<"levels", "showSubtotals", "showGrandTotal", "collapseEmptyGroups">>,
            [levels |-> ZArray(GroupingLevelSchema),
             showSubtotals |-> ZBoolean,
             showGrandTotal |-> ZBoolean,
             collapseEmptyGroups |-> ZBoolean])

(***************************************************************************)
(* The schemas of types/core.ts                                            *)
(***************************************************************************)
UserSchema ==
    ZObject(<<"id", "email", "displayName", "avatarUrl", "accountId", "timeZone", "active">>,
            [id |-> ZString,
             email |-> ZEmail,
             displayName |-> ZString,
             avatarUrl |-> ZOptional(ZUrl),
             accountId |-> ZString,
             timeZone |-> ZOptional(ZString),
             active |-> ZBoolean])

IssueTypeShape ==
    ZObject(<<"id", "name", "iconUrl">>,
            [id |-> ZString, name |-> ZString, iconUrl |-> ZOptional(ZUrl)])

StatusCategoryShape ==
    ZObject(<<"id", "name", "colorName">>,
            [id |-> ZString, name |-> ZString, colorName |-> ZString])

StatusShape ==
    ZObject(<<"id", "name", "statusCategory">>,
            [id |-> ZString, name |-> ZString, statusCategory |-> StatusCategoryShape])

ProjectRefShape ==
    ZObject(<<"id", "key", "name">>,
            [id |-> ZString, key |-> ZString, name |-> ZString])

IssueSchema ==
    ZObject(<<"id", "key", "summary", "description", "issueType", "status", "priority",
              "assignee", "reporter", "project", "created", "updated">>,
            [id |-> ZString,
             key |-> ZString,
             summary |-> ZString,
             description |-> ZOptional(ZString),
             issueType |-> IssueTypeShape,
             status |-> StatusShape,
             priority |-> ZOptional(IssueTypeShape),
             assignee |-> ZOptional(UserSchema),
             reporter |-> ZOptional(UserSchema),
             project |-> ProjectRefShape,
             created |-> ZString,
             updated |-> ZString])

TimesheetEntryKeys ==
    <<"id", "issueId", "issue", "author", "timeSpentSeconds", "timeSpentHours",
      "description", "started", "created", "updated", "project", "worklogId">>

\* a variant whose timeSpentSeconds is only required to be a number
TimesheetEntrySchemaAnySeconds ==
    ZObject(TimesheetEntryKeys,
            [id |-> ZString,
             issueId |-> ZString,
             issue |-> IssueSchema,
             author |-> UserSchema,
             timeSpentSeconds |-> ZNumber,
             timeSpentHours |-> ZNumberPositive,
             description |-> ZOptional(ZString),
             started |-> ZString,
             created |-> ZString,
             updated |-> ZString,
             project |-> ProjectRefShape,
             worklogId |-> ZString])

TimesheetEntrySchema ==
    ZObject(TimesheetEntryKeys,
            [id |-> ZString,
             issueId |-> ZString,
             issue |-> IssueSchema,
             author |-> UserSchema,
             timeSpentSeconds |-> ZNumberPositive,
             timeSpentHours |-> ZNumberPositive,
             description |-> ZOptional(ZString),
             started |-> ZString,
             created |-> ZString,
             updated |-> ZString,
             project |-> ProjectRefShape,
             worklogId |-> ZString])

(***************************************************************************)
(* The schemas of types/filtering.ts                                       *)
(***************************************************************************)
DateRangeFilterSchema ==
    ZObject(<<"startDate", "endDate", "type">>,
            [startDate |-> ZString,
             endDate |-> ZString,
             type |-> ZEnum({"custom", "today", "yesterday", "thisWeek", "lastWeek",
                             "thisMonth", "lastMonth"})])

ProjectFilterSchema ==
    ZObject(<<"selectedProjectIds", "includeInactive">>,
            [selectedProjectIds |-> ZArray(ZString), includeInactive |-> ZBoolean])

UserFilterSchema ==
    ZObject(<<"selectedUserIds", "includeInactive">>,
            [selectedUserIds |-> ZArray(ZString), includeInactive |-> ZBoolean])

IssueTypeFilterSchema ==
    ZObject(<<"selectedIssueTypeIds">>, [selectedIssueTypeIds |-> ZArray(ZString)])

StatusFilterSchema ==
    ZObject(<<"selectedStatusIds", "includeResolved">>,
            [selectedStatusIds |-> ZArray(ZString), includeResolved |-> ZBoolean])

TextFilterSchema ==
    ZObject(<<"searchText", "searchInDescription", "searchInIssueSummary",
              "searchInIssueKey", "caseSensitive">>,
            [searchText |-> ZString,
             searchInDescription |-> ZBoolean,
             searchInIssueSummary |-> ZBoolean,
             searchInIssueKey |-> ZBoolean,
             caseSensitive |-> ZBoolean])

FilterStateSchema ==
    ZObject(<<"dateRange", "projects", "users", "issueTypes", "statuses", "textSearch",
              "minHours", "maxHours">>,
            [dateRange |-> DateRangeFilterSchema,
             projects |-> ProjectFilterSchema,
             users |-> UserFilterSchema,
             issueTypes |-> IssueTypeFilterSchema,
             statuses |-> StatusFilterSchema,
             textSearch |-> TextFilterSchema,
             minHours |-> ZOptional(ZNumberPositive),
             maxHours |-> ZOptional(ZNumberPositive)])

(***************************************************************************)
(* The request schemas of types/api.ts                                     *)
(***************************************************************************)
MaxLimit == 1000

TimesheetsRequestSchema ==
    ZObject(<<"filters", "grouping", "page", "limit", "includeIssueDetails">>,
            [filters |-> ZAny,
             grouping |-> ZAny,
             page |-> ZOptional(ZNumberPositive),
             limit |-> ZOptional(ZNumberPositiveMax(MaxLimit)),
             includeIssueDetails |-> ZOptional(ZBoolean)])

ExportRequestSchema ==
    ZObject(<<"filters", "grouping", "format", "includeDetails", "fileName">>,
            [filters |-> ZAny,
             grouping |-> ZAny,
             format |-> ZEnum({"csv", "excel", "pdf"}),
             includeDetails |-> ZBoolean,
             fileName |-> ZOptional(ZString)])

\* isFilterState(obj)
isFilterState(obj) == safeParse(FilterStateSchema, obj).success

\* isTimesheetsRequest(obj)
isTimesheetsRequest(obj) == safeParse(TimesheetsRequestSchema, obj).success

\* isExportRequest(obj)
isExportRequest(obj) == safeParse(ExportRequestSchema, obj).success

\* isGroupingConfig(obj)
isGroupingConfig(obj) == safeParse(GroupingConfigSchema, obj).success

\* isTimesheetEntry(obj)
isTimesheetEntry(obj) == safeParse(TimesheetEntrySchema, obj).success

(***************************************************************************)
(* The validation wrappers                                                 *)
(***************************************************************************)
\* strs.join(sep)
RECURSIVE Join(_, _)
Join(strs, sep) ==
    IF Len(strs) = 0 THEN ""
    ELSE IF Len(strs) = 1 THEN strs[1]
    ELSE strs[1] \o sep \o Join(Tail(strs), sep)

\* a JavaScript string used as a condition: the empty string is falsy
Truthy(value) == value.t = "string" /\ value.v # ""

Returned(value) == [kind |-> "return", value |-> value]
Thrown(message) == [kind |-> "throw", message |-> message]

\* a variant that reports the first issue only
validateDataFirstIssueOnly(schema, value, message) ==
    LET result == safeParse(schema, value)
    IN  IF ~result.success
        THEN LET err == result.errors[1]
                 errorDetails == Join(err.path, ".") \o ": " \o err.message
             IN  Thrown(IF Truthy(message)
                        THEN message.v \o ": " \o errorDetails
                        ELSE "Validation failed: " \o errorDetails)
        ELSE Returned(result.data)

\* validateData(schema, data, errorMessage?)
validateData(schema, value, message) ==
    LET result == safeParse(schema, value)
    IN  IF ~result.success
        THEN LET errorDetails ==
                    Join([i \in 1..Len(result.errors) |->
                            Join(result.errors[i].path, ".") \o ": "
                            \o result.errors[i].message], ", ")
             IN  Thrown(IF Truthy(message)
                        THEN message.v \o ": " \o errorDetails
                        ELSE "Validation failed: " \o errorDetails)
        ELSE Returned(result.data)

validateFilterState(value) ==
    validateData(FilterStateSchema, value, Str("Invalid filter state"))

validateGroupingConfig(value) ==
    validateData(GroupingConfigSchema, value, Str("Invalid grouping configuration"))

validateTimesheetEntry(value) ==
    validateData(TimesheetEntrySchema, value, Str("Invalid timesheet entry"))

validateTimesheetEntries(value) ==
    validateData(ZArray(TimesheetEntrySchema), value, Str("Invalid timesheet entries array"))

(***************************************************************************)
(* The group tree builder: an ordered sequence of timesheet entries and a  *)
(* GroupingConfig give an ordered forest of GroupNode.  An entry is the    *)
(* projection of a TimesheetEntry on the fields grouping reads; its hours  *)
(* are kept exactly, as timeSpentSeconds.  A date is a record [y, m, d];   *)
(* a bucket start is a day number (days since 1970-01-01).                 *)
(***************************************************************************)
DaysFromCivil(date) ==
    LET y == IF date.m <= 2 THEN date.y - 1 ELSE date.y
        era == y \div 400
        yoe == y - era * 400
        mp == IF date.m > 2 THEN date.m - 3 ELSE date.m + 9
        doy == (153 * mp + 2) \div 5 + date.d - 1
        doe == yoe * 365 + yoe \div 4 - yoe \div 100 + doy
    IN  era * 146097 + doe - 719468

\* the start of the bucket of a date: the day itself, the Monday of its ISO
\* week, the first day of its month, quarter or year
BucketStart(date, dateGroupingType) ==
    CASE dateGroupingType = "day" -> DaysFromCivil(date)
      [] dateGroupingType = "week" -> DaysFromCivil(date) - ((DaysFromCivil(date) + 3) % 7)
      [] dateGroupingType = "month" -> DaysFromCivil([date EXCEPT !.d = 1])
      [] dateGroupingType = "quarter" ->
            DaysFromCivil([date EXCEPT !.m = 3 * ((date.m - 1) \div 3) + 1, !.d = 1])
      [] dateGroupingType = "year" -> DaysFromCivil([date EXCEPT !.m = 1, !.d = 1])

Unassigned == [id |-> "unassigned", name |-> "Unassigned"]

\* the value of an optional reference (author, issue type, ...) that is absent
Absent == [absent |-> TRUE]

\* the grouping key of an entry at a level, with its display value; an entry
\* without the field of the dimension goes to the Unassigned bucket
KeyOf(entry, level) ==
    LET ref == CASE level.dimension = "project" -> entry.project
                 [] level.dimension = "user" -> entry.author
                 [] level.dimension = "issueType" -> entry.issueType
                 [] level.dimension = "status" -> entry.status
                 [] level.dimension = "issue" -> entry.issue
                 [] OTHER -> Absent
    IN  IF level.dimension = "date"
        THEN LET start == BucketStart(entry.started, level.dateGroupingType)
             IN  [value |-> ToString(start), displayName |-> ToString(start), start |-> start]
        ELSE IF "absent" \in DOMAIN ref
             THEN [value |-> Unassigned.id, displayName |-> Unassigned.name, start |-> 0]
             ELSE [value |-> ref.id, displayName |-> ref.name, start |-> 0]

\* the distinct key values of the entries, in first-seen order
RECURSIVE FirstSeenKeys(_, _)
FirstSeenKeys(es, level) ==
    IF Len(es) = 0 THEN << >>
    ELSE LET before == FirstSeenKeys(SubSeq(es, 1, Len(es) - 1), level)
             key == KeyOf(es[Len(es)], level)
         IN  IF \E i \in DOMAIN before : before[i].value = key.value
             THEN before ELSE Append(before, key)

\* a variant that leaves out the entries without the field of the dimension
BucketAssignedOnly(es, level, key) ==
    SelectSeq(es, LAMBDA e : KeyOf(e, level).value = key.value
                              /\ KeyOf(e, level).value # Unassigned.id)

\* the entries of one bucket, in input order
Bucket(es, level, key) ==
    SelectSeq(es, LAMBDA e : KeyOf(e, level).value = key.value)

RECURSIVE SumSeq(_)
SumSeq(ns) == IF Len(ns) = 0 THEN 0 ELSE ns[1] + SumSeq(Tail(ns))

\* a variant that counts the children instead of the entries below them
AggregateCountingChildren(children, owned) ==
    [totalHours |-> SumSeq([i \in DOMAIN children |-> children[i].totalHours])
                    + SumSeq([i \in DOMAIN owned |-> owned[i].timeSpentSeconds]),
     entryCount |-> Len(children) + Len(owned)]

\* the aggregates of a node, computed from its finished children and from
\* the entries it owns directly
Aggregate(children, owned) ==
    [totalHours |-> SumSeq([i \in DOMAIN children |-> children[i].totalHours])
                    + SumSeq([i \in DOMAIN owned |-> owned[i].timeSpentSeconds]),
     entryCount |-> SumSeq([i \in DOMAIN children |-> children[i].entryCount])
                    + Len(owned)]

\* display values in lexicographic (code unit) order
NameOrder == <<"Alpha", "Ann", "Beta", "Bob", "Gamma", "Unassigned">>

NameRank(name) == CHOOSE i \in DOMAIN NameOrder : NameOrder[i] = name

\* the sort key of a node under sortBy; the display value of a date bucket
\* orders as its start does, and only a date bucket has a start of its own
SortKey(node, sortBy) ==
    CASE sortBy = "name" ->
            IF node.dimension = "date" THEN node.start ELSE NameRank(node.displayName)
      [] sortBy = "hours" -> node.totalHours
      [] sortBy = "count" -> node.entryCount
      [] sortBy = "date" -> node.start

Before(a, b, level) ==
    IF level.sortOrder = "asc"
    THEN SortKey(a, level.sortBy) < SortKey(b, level.sortBy)
    ELSE SortKey(a, level.sortBy) > SortKey(b, level.sortBy)

\* x inserted into a sorted list before the first node it must precede
InsertStable(sorted, x, level) ==
    IF \E j \in DOMAIN sorted : Before(x, sorted[j], level)
    THEN LET j == CHOOSE c \in DOMAIN sorted :
                    /\ Before(x, sorted[c], level)
                    /\ \A b \in 1..(c - 1) : ~Before(x, sorted[b], level)
         IN  SubSeq(sorted, 1, j - 1) \o <<x>> \o SubSeq(sorted, j, Len(sorted))
    ELSE Append(sorted, x)

\* a variant that leaves the siblings in first-seen order
SortSiblingsFirstSeen(nodes, level) == nodes

\* the siblings sorted per the level's sortBy / sortOrder, by a stable sort
RECURSIVE SortSiblings(_, _)
SortSiblings(nodes, level) ==
    IF Len(nodes) = 0 THEN << >>
    ELSE InsertStable(SortSiblings(SubSeq(nodes, 1, Len(nodes) - 1), level),
                      nodes[Len(nodes)], level)

\* collapseEmptyGroups: the nodes without any entry are pruned
Prune(nodes, groupingConfig) ==
    IF groupingConfig.collapseEmptyGroups THEN SelectSeq(nodes, LAMBDA n : n.entryCount > 0)
    ELSE nodes

\* the sibling nodes of level i built from the entries es
RECURSIVE BuildLevel(_, _, _, _)
BuildLevel(es, groupingConfig, i, parentId) ==
    LET level == groupingConfig.levels[i]
        keys == FirstSeenKeys(es, level)
        NodeOf(key) ==
            LET bucket == Bucket(es, level, key)
                id == parentId \o "/" \o level.dimension \o ":" \o key.value
                children == IF i < Len(groupingConfig.levels)
                            THEN BuildLevel(bucket, groupingConfig, i + 1, id) ELSE << >>
                owned == IF i < Len(groupingConfig.levels) THEN << >> ELSE bucket
                agg == Aggregate(children, owned)
            IN  [id |-> id,
                 dimension |-> level.dimension,
                 value |-> key.value,
                 displayName |-> key.displayName,
                 start |-> key.start,
                 level |-> i - 1,
                 totalHours |-> agg.totalHours,
                 entryCount |-> agg.entryCount,
                 children |-> children,
                 entries |-> [j \in DOMAIN owned |-> owned[j].id],
                 isExpanded |-> level.expanded]
    IN  SortSiblings(Prune([k \in DOMAIN keys |-> NodeOf(keys[k])], groupingConfig), level)

\* without levels, one root owns every entry
RootNode(es) ==
    LET agg == Aggregate(<< >>, es)
    IN  [id |-> "root", dimension |-> "none", value |-> "", displayName |-> "All",
         start |-> 0, level |-> 0,
         totalHours |-> agg.totalHours, entryCount |-> agg.entryCount,
         children |-> << >>, entries |-> [j \in DOMAIN es |-> es[j].id],
         isExpanded |-> TRUE]

build(es, groupingConfig) ==
    IF Len(groupingConfig.levels) = 0 THEN <<RootNode(es)>>
    ELSE BuildLevel(es, groupingConfig, 1, "")

(***************************************************************************)
(* The sanitizers.  Strings are sequences of one-character strings.        *)
(***************************************************************************)
WhiteSpace == {" ", "\t", "\n"}

\* text.trim()
RECURSIVE trim(_)
trim(str) ==
    IF Len(str) = 0 THEN str
    ELSE IF str[1] \in WhiteSpace THEN trim(Tail(str))
    ELSE IF str[Len(str)] \in WhiteSpace THEN trim(SubSeq(str, 1, Len(str) - 1))
    ELSE str

\* str.replace(/[<>]/g, '')
RemoveAngleBrackets(str) == SelectSeq(str, LAMBDA c : c \notin {"<", ">"})

\* sanitizeSearchText(text)
sanitizeSearchText(str) == RemoveAngleBrackets(trim(str))

\* the characters [a-zA-Z0-9.-]
FileNameChars ==
    {"a", "b", "c", "d", "e", "f", "g", "h", "i", "j", "k", "l", "m",
     "n", "o", "p", "q", "r", "s", "t", "u", "v", "w", "x", "y", "z",
     "A", "B", "C", "D", "E", "F", "G", "H", "I", "J", "K", "L", "M",
     "N", "O", "P", "Q", "R", "S", "T", "U", "V", "W", "X", "Y", "Z",
     ".", "-"} \cup Range(Digits)

\* str.replace(/[^a-zA-Z0-9.-]/g, '_')
ReplaceOtherChars(str) ==
    [i \in DOMAIN str |-> IF str[i] \in FileNameChars THEN str[i] ELSE "_"]

\* str.replace(/_{2,}/g, '_'): of a run of underscores only the first stays
RECURSIVE CollapseUnderscores(_)
CollapseUnderscores(str) ==
    IF Len(str) <= 1 THEN str
    ELSE IF str[Len(str)] = "_" /\ str[Len(str) - 1] = "_"
         THEN CollapseUnderscores(SubSeq(str, 1, Len(str) - 1))
         ELSE Append(CollapseUnderscores(SubSeq(str, 1, Len(str) - 1)), str[Len(str)])

\* str.replace(/^_|_$/g, ''): an underscore at the start and one at the end
StripEdgeUnderscores(str) ==
    LET first == IF Len(str) >= 1 /\ str[1] = "_" THEN 2 ELSE 1
        last == IF Len(str) >= first /\ str[Len(str)] = "_" THEN Len(str) - 1 ELSE Len(str)
    IN  SubSeq(str, first, last)

\* a variant without the step that collapses runs of underscores
sanitizeFileNameNoCollapse(fileName) ==
    StripEdgeUnderscores(ReplaceOtherChars(fileName))

\* sanitizeFileName(fileName)
sanitizeFileName(fileName) ==
    StripEdgeUnderscores(CollapseUnderscores(ReplaceOtherChars(fileName)))

(***************************************************************************)
(* The default constructors.  new Date() reads the clock, an instant in    *)
(* milliseconds since the epoch, kept here as its day number and the       *)
(* milliseconds into that day (day * MsPerDay + ms does not fit the        *)
(* model checker's integers); toISOString().split('T')[0] is the UTC date  *)
(* of the instant as YYYY-MM-DD.                                           *)
(***************************************************************************)
MsPerDay == 24 * MinutesPerHour * SecondsPerMinute * 1000

\* the instant day * MsPerDay + ms
Instant(day, ms) == [day |-> day + ms \div MsPerDay, ms |-> ms % MsPerDay]

\* the civil date of a day number (days since 1970-01-01)
CivilFromDays(days) ==
    LET z == days + 719468
        era == z \div 146097
        doe == z - era * 146097
        yoe == (doe - doe \div 1460 + doe \div 36524 - doe \div 146096) \div 365
        doy == doe - (365 * yoe + yoe \div 4 - yoe \div 100)
        mp == (5 * doy + 2) \div 153
        month == IF mp < 10 THEN mp + 3 ELSE mp - 9
    IN  [y |-> yoe + era * 400 + (IF month <= 2 THEN 1 ELSE 0),
         m |-> month,
         d |-> doy - (153 * mp + 2) \div 5 + 1]

\* new Date(instant).toISOString().split('T')[0]
IsoDate(instant) ==
    LET date == CivilFromDays(instant.day)
        TwoDigits(n) == IF n < 10 THEN "0" \o ToString(n) ELSE ToString(n)
    IN  ToString(date.y) \o "-" \o TwoDigits(date.m) \o "-" \o TwoDigits(date.d)

\* createDefaultGroupingConfig()
createDefaultGroupingConfig ==
    Obj([levels |-> Arr(<<Obj([dimension |-> Str("project"),
                               sortBy |-> Str("name"),
                               sortOrder |-> Str("asc"),
                               expanded |-> Bool(TRUE)])>>),
         showSubtotals |-> Bool(TRUE),
         showGrandTotal |-> Bool(TRUE),
         collapseEmptyGroups |-> Bool(TRUE)])

FilterStateOn(startDate, endDate) ==
    Obj([dateRange |-> Obj([startDate |-> Str(startDate), endDate |-> Str(endDate),
                            type |-> Str("today")]),
         projects |-> Obj([selectedProjectIds |-> Arr(<< >>), includeInactive |-> Bool(FALSE)]),
         users |-> Obj([selectedUserIds |-> Arr(<< >>), includeInactive |-> Bool(FALSE)]),
         issueTypes |-> Obj([selectedIssueTypeIds |-> Arr(<< >>)]),
         statuses |-> Obj([selectedStatusIds |-> Arr(<< >>), includeResolved |-> Bool(TRUE)]),
         textSearch |-> Obj([searchText |-> Str(""),
                             searchInDescription |-> Bool(TRUE),
                             searchInIssueSummary |-> Bool(TRUE),
                             searchInIssueKey |-> Bool(TRUE),
                             caseSensitive |-> Bool(FALSE)])])

\* a variant that reads the clock for endDate before it reads it for startDate
createDefaultFilterStateEndFirst(firstRead, secondRead) ==
    FilterStateOn(IsoDate(secondRead), IsoDate(firstRead))

\* createDefaultFilterState(): startDate is made from the first read of the
\* clock, endDate from the second
createDefaultFilterState(firstRead, secondRead) ==
    FilterStateOn(IsoDate(firstRead), IsoDate(secondRead))

(***************************************************************************)
(* Calls                                                                   *)
(***************************************************************************)
NoOutcome == [kind |-> "none"]

NoParts == [order |-> << >>, val |-> [u \in Units |-> 0]]

\* the arguments a caller passes to formatHoursAsJiraTime, in seconds
HourArguments == 0..(MaxWholeHours * SecondsPerHour + SecondsPerHour - 1)

\* the component values a caller writes into a composed time string
ComposedArguments ==
    {p \in [order : UnitOrders, val : [Units -> 0..MaxComponent]] :
        \A u \in Units : (\A i \in DOMAIN p.order : p.order[i] # u) => p.val[u] = 0}

(***************************************************************************)
(* A behaviour is one call: fn is the function the caller applies, Init    *)
(* holds its arguments, and op becomes the name of the function once it    *)
(* has been applied.                                                       *)
(***************************************************************************)
TimeIdle ==
    /\ hoursIn = 0
    /\ timeStr = << >>
    /\ parsed = 0
    /\ parts = NoParts

ValidationIdle ==
    /\ schemaName = NoValue
    /\ errorMessage = Undefined
    /\ data = Undefined
    /\ outcome = NoOutcome

NoConfig ==
    [levels |-> << >>, showSubtotals |-> FALSE, showGrandTotal |-> FALSE,
     collapseEmptyGroups |-> FALSE]

BuilderIdle ==
    /\ entries = << >>
    /\ config = NoConfig
    /\ forest = << >>
    /\ permuted = << >>
    /\ forest2 = << >>

TextIdle ==
    /\ text = << >>
    /\ clean = << >>
    /\ clock = <<Instant(0, 0), Instant(0, 0)>>

InitTimeHelpers ==
    /\ ValidationIdle
    /\ BuilderIdle
    /\ TextIdle
    /\ parsed = 0
    /\ \/ /\ fn = "formatHoursAsJiraTime"
          /\ hoursIn \in HourArguments
          /\ timeStr = << >>
          /\ parts = NoParts
       \/ /\ fn = "parseJiraTimeSpent"
          /\ hoursIn = 0
          /\ parts \in ComposedArguments
          /\ timeStr = ComposeTime(parts.order, parts.val)
       \/ /\ fn = "parseJiraTimeSpent"
          /\ hoursIn = 0
          /\ parts = NoParts
          /\ timeStr \in PlainStrings

(***************************************************************************)
(* Values handed to the validators.  Well-typed and ill-typed grouping     *)
(* levels: known and unknown dimensions, the date grouping type absent,    *)
(* known or unknown, a known or unknown sort key.                          *)
(***************************************************************************)
LevelInputs ==
    {ObjOmitting([dimension |-> d, sortBy |-> sb, sortOrder |-> Str("asc"),
                  dateGroupingType |-> g, expanded |-> Bool(TRUE)]) :
        d \in {Str("project"), Str("date"), Str("issue"), Str("priority")},
        sb \in {Str("name"), Str("size")},
        g \in {Undefined, Str("month"), Str("century")}}

SeqsUpTo(S, n) == UNION {[1..m -> S] : m \in 0..n}

GroupingConfigInputs ==
    {ObjOmitting([levels |-> Arr(ls), showSubtotals |-> st,
                  showGrandTotal |-> Bool(TRUE), collapseEmptyGroups |-> Bool(FALSE)]) :
        ls \in SeqsUpTo(LevelInputs, MaxLevels), st \in {Bool(TRUE), Undefined}}
    \cup {Str("project"), Undefined}

AnnUser ==
    Obj([id |-> Str("u1"), email |-> Str("ann@example.com"), displayName |-> Str("Ann"),
         accountId |-> Str("acc-1"), active |-> Bool(TRUE)])

ProjectRef == Obj([id |-> Str("10"), key |-> Str("ABC"), name |-> Str("Alpha")])

AnIssue ==
    Obj([id |-> Str("1001"), key |-> Str("ABC-1"), summary |-> Str("Fix login"),
         issueType |-> Obj([id |-> Str("1"), name |-> Str("Bug")]),
         status |-> Obj([id |-> Str("3"), name |-> Str("Done"),
                         statusCategory |-> Obj([id |-> Str("3"), name |-> Str("Done"),
                                                 colorName |-> Str("green")])]),
         assignee |-> AnnUser,
         project |-> ProjectRef,
         created |-> Str("2024-01-15T09:00:00.000Z"),
         updated |-> Str("2024-01-15T09:00:00.000Z")])

EntryWith(seconds, hours) ==
    ObjOmitting([id |-> Str("e1"), issueId |-> Str("1001"), issue |-> AnIssue,
                 author |-> AnnUser, timeSpentSeconds |-> seconds, timeSpentHours |-> hours,
                 started |-> Str("2024-01-15"),
                 created |-> Str("2024-01-15T09:00:00.000Z"),
                 updated |-> Str("2024-01-15T09:00:00.000Z"),
                 project |-> ProjectRef, worklogId |-> Str("w1")])

\* the two time fields of the explored entries: agreeing, disagreeing, zero,
\* negative, ill-typed and missing
TimeFieldInputs ==
    {<<Num(3600), Num(1)>>, <<Num(1800), NumSecondsAsHours(1800)>>,
     <<Num(3600), Num(5)>>, <<Num(7200), NumSecondsAsHours(1800)>>,
     <<Num(0), Num(0)>>, <<Num(0), Num(1)>>, <<Num(3600), Num(0)>>,
     <<Num(-60), NumSecondsAsHours(-60)>>, <<Num(-3600), Num(1)>>,
     <<Str("3600"), Num(1)>>, <<Undefined, Num(1)>>, <<Num(3600), Undefined>>}

TimesheetEntryInputs ==
    {EntryWith(tf[1], tf[2]) : tf \in TimeFieldInputs} \cup {Str("e1")}

TimesheetEntriesInputs ==
    {Arr(es) : es \in SeqsUpTo(TimesheetEntryInputs, MaxEntries)} \cup {EntryWith(Num(3600), Num(1))}

SchemaNamed(name) ==
    IF name = "GroupingConfigSchema" THEN GroupingConfigSchema ELSE TimesheetEntrySchema

\* filters of a request: a FilterState, a string, an object without the
\* parts of a FilterState, nothing
FiltersInputs ==
    {FilterStateOn("2024-01-15", "2024-01-15"), Str("all"),
     Obj([dateRange |-> Str("today")]), Undefined}

\* grouping of a request: a GroupingConfig, one with a level of unknown
\* dimension, a string, nothing
GroupingInputs ==
    {Obj([levels |-> Arr(<<Obj([dimension |-> Str(d), sortBy |-> Str("name"),
                                sortOrder |-> Str("asc"), expanded |-> Bool(TRUE)])>>),
          showSubtotals |-> Bool(TRUE), showGrandTotal |-> Bool(TRUE),
          collapseEmptyGroups |-> Bool(TRUE)]) : d \in {"project", "priority"}}
    \cup {Str("project"), Undefined}

TimesheetsRequestInputs ==
    {ObjOmitting([filters |-> f, grouping |-> g, page |-> pg, limit |-> lim]) :
        f \in FiltersInputs, g \in GroupingInputs,
        pg \in {Undefined, Num(1), Num(0)}, lim \in {Undefined, Num(50), Num(5000)}}

ExportRequestInputs ==
    {ObjOmitting([filters |-> f, grouping |-> g, format |-> fmt, includeDetails |-> det]) :
        f \in FiltersInputs, g \in GroupingInputs,
        fmt \in {Str("csv"), Str("xml")}, det \in {Bool(TRUE), Undefined}}

InitValidation ==
    /\ TimeIdle
    /\ BuilderIdle
    /\ TextIdle
    /\ outcome = NoOutcome
    /\ \/ /\ fn = "validateData"
          /\ schemaName \in {"GroupingConfigSchema", "TimesheetEntrySchema"}
          /\ errorMessage \in {Undefined, Str(""), Str("Bad request")}
          /\ data \in GroupingConfigInputs \cup TimesheetEntryInputs
       \/ /\ fn \in {"validateGroupingConfig", "isGroupingConfig"}
          /\ schemaName = NoValue
          /\ errorMessage = Undefined
          /\ data \in GroupingConfigInputs
       \/ /\ fn \in {"validateTimesheetEntry", "isTimesheetEntry"}
          /\ schemaName = NoValue
          /\ errorMessage = Undefined
          /\ data \in TimesheetEntryInputs
       \/ /\ fn = "validateTimesheetEntries"
          /\ schemaName = NoValue
          /\ errorMessage = Undefined
          /\ data \in TimesheetEntriesInputs
       \/ /\ fn = "isTimesheetsRequest"
          /\ schemaName = NoValue
          /\ errorMessage = Undefined
          /\ data \in TimesheetsRequestInputs
       \/ /\ fn = "isExportRequest"
          /\ schemaName = NoValue
          /\ errorMessage = Undefined
          /\ data \in ExportRequestInputs

\* the characters of the strings handed to the sanitizers
InitSanitizers ==
    /\ TimeIdle
    /\ ValidationIdle
    /\ BuilderIdle
    /\ clean = << >>
    /\ clock = <<Instant(0, 0), Instant(0, 0)>>
    /\ \/ /\ fn = "sanitizeSearchText"
          /\ text \in SeqsUpTo({"a", " ", "\t", "<", ">"}, MaxTextLen)
       \/ /\ fn = "sanitizeFileName"
          /\ text \in SeqsUpTo({"a", "Z", "7", ".", "-", "_", " "}, MaxTextLen)

\* two reads of a clock that does not run backwards, at the end of a year, of
\* two days of a leap February and of an ordinary day, the first read possibly
\* in the last milliseconds of the day
ClockReads ==
    {<<Instant(day, ms), Instant(day, ms + advance)>> :
        day \in {DaysFromCivil([y |-> 2023, m |-> 12, d |-> 31]),
                 DaysFromCivil([y |-> 2024, m |-> 2, d |-> 28]),
                 DaysFromCivil([y |-> 2024, m |-> 2, d |-> 29]),
                 DaysFromCivil([y |-> 2024, m |-> 6, d |-> 9])},
        ms \in {0, MsPerDay - 2, MsPerDay - 1},
        advance \in 0..MaxClockAdvance}

InitDefaults ==
    /\ TimeIdle
    /\ ValidationIdle
    /\ BuilderIdle
    /\ text = << >>
    /\ clean = << >>
    /\ \/ /\ fn = "createDefaultGroupingConfig"
          /\ clock = <<Instant(0, 0), Instant(0, 0)>>
       \/ /\ fn = "createDefaultFilterState"
          /\ clock \in ClockReads

(***************************************************************************)
(* Entries and configurations handed to the builder.  Entries have         *)
(* distinct identifiers; the third has no author.                          *)
(***************************************************************************)
Beta == [id |-> "p1", name |-> "Beta"]
Alpha == [id |-> "p2", name |-> "Alpha"]
Ann == [id |-> "u1", name |-> "Ann"]
Bob == [id |-> "u2", name |-> "Bob"]

EntryPool ==
    {[id |-> "e1", project |-> Beta, author |-> Ann, issueType |-> Absent,
      status |-> Absent, issue |-> Absent,
      started |-> [y |-> 2024, m |-> 1, d |-> 15], timeSpentSeconds |-> 1 * SecondsPerHour],
     [id |-> "e2", project |-> Alpha, author |-> Bob, issueType |-> Absent,
      status |-> Absent, issue |-> Absent,
      started |-> [y |-> 2024, m |-> 2, d |-> 3], timeSpentSeconds |-> 2 * SecondsPerHour],
     [id |-> "e3", project |-> Alpha, author |-> Absent, issueType |-> Absent,
      status |-> Absent, issue |-> Absent,
      started |-> [y |-> 2024, m |-> 1, d |-> 20], timeSpentSeconds |-> 3 * SecondsPerHour],
     [id |-> "e4", project |-> Beta, author |-> Ann, issueType |-> Absent,
      status |-> Absent, issue |-> Absent,
      started |-> [y |-> 2024, m |-> 1, d |-> 16], timeSpentSeconds |-> 1 * SecondsPerHour]}

EntrySeqs ==
    {es \in SeqsUpTo(EntryPool, MaxBuildEntries) :
        \A i, j \in DOMAIN es : i # j => es[i].id # es[j].id}

Level(dimension, dateGroupingType, sortBy, sortOrder) ==
    [dimension |-> dimension, dateGroupingType |-> dateGroupingType,
     sortBy |-> sortBy, sortOrder |-> sortOrder, expanded |-> TRUE]

LevelPool ==
    {Level("project", NoValue, "name", "asc"),
     Level("project", NoValue, "hours", "desc"),
     Level("user", NoValue, "name", "desc"),
     Level("user", NoValue, "count", "asc"),
     Level("date", "month", "date", "desc"),
     Level("date", "week", "hours", "asc")}

ConfigInputs ==
    [levels : SeqsUpTo(LevelPool, MaxBuildLevels), showSubtotals : {TRUE},
     showGrandTotal : {TRUE}, collapseEmptyGroups : BOOLEAN]

InitBuilder ==
    /\ TimeIdle
    /\ ValidationIdle
    /\ TextIdle
    /\ fn = "build"
    /\ entries \in EntrySeqs
    /\ config \in ConfigInputs
    /\ forest = << >>
    /\ permuted = << >>
    /\ forest2 = << >>

Init ==
    /\ op = "none"
    /\ \/ InitTimeHelpers
       \/ InitValidation
       \/ InitBuilder
       \/ InitSanitizers
       \/ InitDefaults

timeVars == <<hoursIn, timeStr, parsed, parts>>
callVars == <<fn, schemaName, errorMessage, data>>
treeVars == <<entries, config, forest, permuted, forest2>>
textVars == <<text, clean, clock>>

\* formatHoursAsJiraTime(hoursIn)
FormatHours ==
    /\ op = "none"
    /\ fn = "formatHoursAsJiraTime"
    /\ op' = "formatHoursAsJiraTime"
    /\ timeStr' = formatHoursAsJiraTime(hoursIn)
    /\ UNCHANGED <<callVars, hoursIn, parsed, parts, outcome, treeVars, textVars>>

\* parseJiraTimeSpent applied to the string formatHoursAsJiraTime returned
ParseFormatted ==
    /\ op = "formatHoursAsJiraTime"
    /\ op' = "parseFormatted"
    /\ parsed' = parseJiraTimeSpent(timeStr)
    /\ UNCHANGED <<callVars, hoursIn, timeStr, parts, outcome, treeVars, textVars>>

\* parseJiraTimeSpent applied to a string composed of d/h/m components
ParseComposed ==
    /\ op = "none"
    /\ fn = "parseJiraTimeSpent"
    /\ parts.order # << >>
    /\ op' = "parseComposed"
    /\ parsed' = parseJiraTimeSpent(timeStr)
    /\ UNCHANGED <<callVars, hoursIn, timeStr, parts, outcome, treeVars, textVars>>

\* parseJiraTimeSpent applied to a string without any d/h/m component
ParsePlain ==
    /\ op = "none"
    /\ fn = "parseJiraTimeSpent"
    /\ parts.order = << >>
    /\ op' = "parsePlain"
    /\ parsed' = parseJiraTimeSpent(timeStr)
    /\ UNCHANGED <<callVars, hoursIn, timeStr, parts, outcome, treeVars, textVars>>

\* one call of a validator or type guard: op becomes its name
Call(name, result) ==
    /\ op = "none"
    /\ fn = name
    /\ op' = name
    /\ outcome' = result
    /\ UNCHANGED <<callVars, timeVars, treeVars, textVars>>

ValidateData == Call("validateData", validateData(SchemaNamed(schemaName), data, errorMessage))

ValidateGroupingConfig == Call("validateGroupingConfig", validateGroupingConfig(data))

IsGroupingConfig == Call("isGroupingConfig", Returned(isGroupingConfig(data)))

ValidateTimesheetEntry == Call("validateTimesheetEntry", validateTimesheetEntry(data))

ValidateTimesheetEntries == Call("validateTimesheetEntries", validateTimesheetEntries(data))

IsTimesheetEntry == Call("isTimesheetEntry", Returned(isTimesheetEntry(data)))

IsTimesheetsRequest == Call("isTimesheetsRequest", Returned(isTimesheetsRequest(data)))

IsExportRequest == Call("isExportRequest", Returned(isExportRequest(data)))

\* sanitizeSearchText(text)
SanitizeSearchText ==
    /\ op = "none"
    /\ fn = "sanitizeSearchText"
    /\ op' = "sanitizeSearchText"
    /\ clean' = sanitizeSearchText(text)
    /\ UNCHANGED <<callVars, timeVars, treeVars, outcome, text, clock>>

\* sanitizeSearchText applied to its own result: text is the first result
SanitizeSearchTextAgain ==
    /\ op = "sanitizeSearchText"
    /\ op' = "sanitizeSearchTextAgain"
    /\ text' = clean
    /\ clean' = sanitizeSearchText(clean)
    /\ UNCHANGED <<callVars, timeVars, treeVars, outcome, clock>>

\* sanitizeFileName(text)
SanitizeFileName ==
    /\ op = "none"
    /\ fn = "sanitizeFileName"
    /\ op' = "sanitizeFileName"
    /\ clean' = sanitizeFileName(text)
    /\ UNCHANGED <<callVars, timeVars, treeVars, outcome, text, clock>>

\* sanitizeFileName applied to its own result: text is the first result
SanitizeFileNameAgain ==
    /\ op = "sanitizeFileName"
    /\ op' = "sanitizeFileNameAgain"
    /\ text' = clean
    /\ clean' = sanitizeFileName(clean)
    /\ UNCHANGED <<callVars, timeVars, treeVars, outcome, clock>>

\* createDefaultGroupingConfig()
CreateDefaultGroupingConfig ==
    /\ op = "none"
    /\ fn = "createDefaultGroupingConfig"
    /\ op' = "createDefaultGroupingConfig"
    /\ data' = createDefaultGroupingConfig
    /\ UNCHANGED <<fn, schemaName, errorMessage, outcome, timeVars, treeVars, textVars>>

\* validateGroupingConfig applied to the default configuration
ValidateDefaultGroupingConfig ==
    /\ op = "createDefaultGroupingConfig"
    /\ op' = "validateDefaultGroupingConfig"
    /\ outcome' = validateGroupingConfig(data)
    /\ UNCHANGED <<callVars, timeVars, treeVars, textVars>>

\* createDefaultFilterState(), the clock being read twice
CreateDefaultFilterState ==
    /\ op = "none"
    /\ fn = "createDefaultFilterState"
    /\ op' = "createDefaultFilterState"
    /\ data' = createDefaultFilterState(clock[1], clock[2])
    /\ UNCHANGED <<fn, schemaName, errorMessage, outcome, timeVars, treeVars, textVars>>

\* validateFilterState applied to the default filter state
ValidateDefaultFilterState ==
    /\ op = "createDefaultFilterState"
    /\ op' = "validateDefaultFilterState"
    /\ outcome' = validateFilterState(data)
    /\ UNCHANGED <<callVars, timeVars, treeVars, textVars>>

\* build(entries, config)
Build ==
    /\ op = "none"
    /\ fn = "build"
    /\ op' = "build"
    /\ forest' = build(entries, config)
    /\ UNCHANGED <<callVars, timeVars, textVars, outcome, entries, config, permuted, forest2>>

EntryOrders(n) == {p \in [1..n -> 1..n] : \A i, j \in 1..n : i # j => p[i] # p[j]}

\* a second build, of a permutation of the same entries with the same config
BuildPermuted ==
    /\ op = "build"
    /\ \E p \in EntryOrders(Len(entries)) :
          LET es == [i \in 1..Len(entries) |-> entries[p[i]]]
          IN  /\ permuted' = es
              /\ forest2' = build(es, config)
    /\ op' = "buildPermuted"
    /\ UNCHANGED <<callVars, timeVars, textVars, outcome, entries, config, forest>>

Next ==
    \/ FormatHours
    \/ ParseFormatted
    \/ ParseComposed
    \/ ParsePlain
    \/ ValidateData
    \/ ValidateGroupingConfig
    \/ IsGroupingConfig
    \/ ValidateTimesheetEntry
    \/ ValidateTimesheetEntries
    \/ IsTimesheetEntry
    \/ IsTimesheetsRequest
    \/ IsExportRequest
    \/ Build
    \/ BuildPermuted
    \/ SanitizeSearchText
    \/ SanitizeSearchTextAgain
    \/ SanitizeFileName
    \/ SanitizeFileNameAgain
    \/ CreateDefaultGroupingConfig
    \/ ValidateDefaultGroupingConfig
    \/ CreateDefaultFilterState
    \/ ValidateDefaultFilterState

Spec == Init /\ [][Next]_vars

(***************************************************************************)
(* Properties                                                              *)
(***************************************************************************)
Abs(x) == IF x < 0 THEN -x ELSE x

\* C1: parseJiraTimeSpent(formatHoursAsJiraTime(h)) differs from h by at most
\* 1/60 hour, i.e. by at most 60 seconds, for every h >= 0.
C1_RoundTripWithinAMinute ==
    op = "parseFormatted" =>
        Abs(parsed * SecondsPerMinute - hoursIn) <= SecondsPerMinute

\* C1 witness: a round trip of a value whose fractional part rounds up to a
\* full 60 minutes (1h 59m 45s is formatted as "1h 60m" and parsed as 2h).
C1_Witness ==
    /\ op = "parseFormatted"
    /\ hoursIn = SecondsPerHour + 59 * SecondsPerMinute + 45
    /\ timeStr = <<"1", "h", " ", "6", "0", "m">>
    /\ parsed = 2 * MinutesPerHour

\* C6: a string built from any subset of "<D>d", "<H>h", "<M>m" in any order
\* parses to 8*D + H + M/60 hours (absent components count 0); a string
\* without any component parses to 0.
C6_DayIsEightHours ==
    /\ op = "parseComposed" =>
          parsed = (8 * parts.val["d"] + parts.val["h"]) * 60 + parts.val["m"]
    /\ op = "parsePlain" => parsed = 0

\* C6 witness: "3m 2d" (no hours, minutes written before days) parsed as
\* 16 hours 3 minutes.
C6_Witness ==
    /\ op = "parseComposed"
    /\ timeStr = <<"3", "m", " ", "2", "d">>
    /\ parsed = 16 * 60 + 3

(***************************************************************************)
(* Validation                                                              *)
(***************************************************************************)
GroupingConfigValidators == {"validateGroupingConfig", "isGroupingConfig"}

TimesheetEntryValidators == {"validateTimesheetEntry", "isTimesheetEntry"}

\* the call has been made and the validator accepted / rejected its argument
Accepted ==
    \/ op \in {"validateData", "validateGroupingConfig", "validateTimesheetEntry",
               "validateTimesheetEntries"} /\ outcome.kind = "return"
    \/ op \in {"isGroupingConfig", "isTimesheetEntry"} /\ outcome = Returned(TRUE)

Rejected ==
    \/ op \in {"validateData", "validateGroupingConfig", "validateTimesheetEntry",
               "validateTimesheetEntries"} /\ outcome.kind = "throw"
    \/ op \in {"isGroupingConfig", "isTimesheetEntry"} /\ outcome = Returned(FALSE)

\* the levels of a configuration object, << >> when it has no levels array
LevelsOf(value) ==
    IF value.t = "object" /\ Get(value, "levels").t = "array"
    THEN Get(value, "levels").v ELSE << >>

KnownDimensions == {"project", "user", "issueType", "status", "date", "issue"}

UnknownDimension(level) ==
    ~(Get(level, "dimension").t = "string" /\ Get(level, "dimension").v \in KnownDimensions)

DateTypeWithoutDate(level) ==
    /\ Get(level, "dateGroupingType").t # "undefined"
    /\ Get(level, "dimension") # Str("date")

DateWithoutDateType(level) ==
    /\ Get(level, "dimension") = Str("date")
    /\ Get(level, "dateGroupingType").t = "undefined"

\* C2: schema validation of a GroupingConfig rejects every configuration with
\* a level of unknown dimension, a level that sets dateGroupingType on a
\* dimension other than 'date', or a 'date' level without dateGroupingType.
C2_MalformedConfigRejected ==
    (/\ op \in GroupingConfigValidators
     /\ \E i \in DOMAIN LevelsOf(data) :
            \/ UnknownDimension(LevelsOf(data)[i])
            \/ DateTypeWithoutDate(LevelsOf(data)[i])
            \/ DateWithoutDateType(LevelsOf(data)[i]))
    => Rejected

\* the second argument list of a message: every issue as 'path: message',
\* the path segments joined by '.', the issues joined by ', '
RECURSIVE DottedPath(_, _)
DottedPath(path, n) ==
    IF n = 0 THEN ""
    ELSE IF n = 1 THEN path[1]
    ELSE DottedPath(path, n - 1) \o "." \o path[n]

RECURSIVE IssueList(_, _)
IssueList(issues, n) ==
    LET item == DottedPath(issues[n].path, Len(issues[n].path)) \o ": " \o issues[n].message
    IN  IF n = 1 THEN item ELSE IssueList(issues, n - 1) \o ", " \o item

TwoOutcomes(prefix) ==
    LET schema == SchemaNamed(schemaName)
        issues == Issues(schema, data, << >>)
    IN  /\ outcome.kind \in {"return", "throw"}
        /\ outcome.kind = "return" <=> issues = << >>
        /\ outcome.kind = "return" => outcome.value = Parsed(schema, data)
        /\ outcome.kind = "throw" =>
              outcome.message = prefix \o ": " \o IssueList(issues, Len(issues))

\* C3 as stated: validateData returns the parsed value when data matches the
\* schema and otherwise throws an Error whose message is the prefix
\* (errorMessage if given, else 'Validation failed'), ': ' and the ', '-joined
\* 'path: message' list of the issues.
C3_MessagePrefixIfGiven ==
    op = "validateData" =>
        TwoOutcomes(IF errorMessage.t = "string" THEN errorMessage.v ELSE "Validation failed")

\* C3 amended: as above, with the prefix being errorMessage if it is given and
\* is not the empty string, else 'Validation failed'.
C3_MessagePrefixIfNonEmpty ==
    op = "validateData" =>
        TwoOutcomes(IF errorMessage.t = "string" /\ errorMessage.v # ""
                    THEN errorMessage.v ELSE "Validation failed")

\* C3 witness: a configuration with two issues, one of them nested in the
\* levels array, is refused with both listed after the caller's prefix.
C3_Witness ==
    /\ op = "validateData"
    /\ schemaName = "GroupingConfigSchema"
    /\ Len(LevelsOf(data)) = 1
    /\ outcome = Thrown("Bad request: levels.0.dimension: Invalid enum value, received 'priority'"
                        \o ", showSubtotals: Required")

\* the entries an entry validator was applied to
EntriesOf(value) ==
    IF op = "validateTimesheetEntries"
    THEN (IF value.t = "array" THEN value.v ELSE << >>)
    ELSE <<value>>

IsNumber(entry, key) == entry.t = "object" /\ Get(entry, key).t = "number"

\* timeSpentHours = timeSpentSeconds / 3600, on the exact representation
HoursMatchSeconds(entry) ==
    /\ IsNumber(entry, "timeSpentSeconds")
    /\ IsNumber(entry, "timeSpentHours")
    /\ Get(entry, "timeSpentHours").v * SecondsPerHour = Get(entry, "timeSpentSeconds").v

\* C4: every TimesheetEntry accepted by validation has
\* timeSpentHours = timeSpentSeconds / 3600; an entry whose two time fields
\* disagree is rejected.
C4_AcceptedHoursMatchSeconds ==
    (/\ op \in TimesheetEntryValidators \cup {"validateTimesheetEntries"}
     /\ Accepted)
    => \A i \in DOMAIN EntriesOf(data) : HoursMatchSeconds(EntriesOf(data)[i])

\* C5: every TimesheetEntry accepted by validation has timeSpentSeconds > 0:
\* an entry whose timeSpentSeconds is zero or negative is rejected, and
\* validateTimesheetEntries rejects the whole array when one element is.
C5_AcceptedSecondsPositive ==
    op \in TimesheetEntryValidators \cup {"validateTimesheetEntries"} =>
        /\ Accepted =>
              \A i \in DOMAIN EntriesOf(data) :
                  /\ IsNumber(EntriesOf(data)[i], "timeSpentSeconds")
                  /\ Get(EntriesOf(data)[i], "timeSpentSeconds").v > 0
        /\ (\E i \in DOMAIN EntriesOf(data) :
                /\ IsNumber(EntriesOf(data)[i], "timeSpentSeconds")
                /\ Get(EntriesOf(data)[i], "timeSpentSeconds").v <= 0)
           => Rejected

\* C5 witness: an array whose first element is valid and whose second has
\* timeSpentSeconds = 0 is refused as a whole.
C5_Witness ==
    /\ op = "validateTimesheetEntries"
    /\ data = Arr(<<EntryWith(Num(3600), Num(1)), EntryWith(Num(0), Num(1))>>)
    /\ outcome = Thrown("Invalid timesheet entries array: "
                        \o "1.timeSpentSeconds: Number must be greater than 0")

\* C7: a GroupingConfig is accepted whenever its flags are booleans and each
\* of its levels is acceptable on its own: also when the list of levels is
\* empty and when a dimension appears at two or more levels.
C7_EmptyAndRepeatedLevelsAccepted ==
    (/\ op \in GroupingConfigValidators
     /\ data.t = "object"
     /\ Get(data, "levels").t = "array"
     /\ \A key \in {"showSubtotals", "showGrandTotal", "collapseEmptyGroups"} :
            Get(data, key).t = "boolean"
     /\ \A i \in DOMAIN LevelsOf(data) :
            Issues(GroupingLevelSchema, LevelsOf(data)[i], << >>) = << >>)
    => /\ Accepted
       /\ op = "validateGroupingConfig" => outcome.value = data

\* C7 witness: a configuration that groups by project at both of its levels
\* is returned by validateGroupingConfig.
C7_Witness ==
    /\ op = "validateGroupingConfig"
    /\ Len(LevelsOf(data)) = 2
    /\ \A i \in 1..2 : Get(LevelsOf(data)[i], "dimension") = Str("project")
    /\ outcome = Returned(data)

(***************************************************************************)
(* The group tree                                                          *)
(***************************************************************************)
\* every node of a forest, parents before children
RECURSIVE AllNodes(_)
AllNodes(nodes) ==
    IF Len(nodes) = 0 THEN << >>
    ELSE <<nodes[1]>> \o AllNodes(nodes[1].children) \o AllNodes(Tail(nodes))

\* the identifiers of the entries owned in the subtree of a node
RECURSIVE SubtreeIds(_), ForestIds(_)
SubtreeIds(node) == node.entries \o ForestIds(node.children)

ForestIds(nodes) ==
    IF Len(nodes) = 0 THEN << >> ELSE SubtreeIds(nodes[1]) \o ForestIds(Tail(nodes))

HoursOfId(id) == (CHOOSE e \in Range(entries) : e.id = id).timeSpentSeconds

Built == op \in {"build", "buildPermuted"}

\* C8: in every forest the builder produces, every node has
\* totalHours = sum of totalHours of its children + sum of the hours of the
\* entries it owns = sum of the hours of the entries of its subtree, and
\* entryCount = the number of entries of its subtree.
C8_AggregatesOfSubtree ==
    Built =>
        \A n \in Range(AllNodes(forest)) :
            /\ n.totalHours =
                  SumSeq([i \in DOMAIN n.children |-> n.children[i].totalHours])
                  + SumSeq([i \in DOMAIN n.entries |-> HoursOfId(n.entries[i])])
            /\ n.totalHours =
                  SumSeq([i \in DOMAIN SubtreeIds(n) |-> HoursOfId(SubtreeIds(n)[i])])
            /\ n.entryCount = Len(SubtreeIds(n))

\* C8 witness: Beta 1h, Alpha 2h, Alpha 3h by project then user; Alpha comes
\* first with 5h over 2 entries held by two children, Beta has 1h.
C8_Witness ==
    /\ op = "build"
    /\ [i \in DOMAIN entries |-> entries[i].id] = <<"e1", "e2", "e3">>
    /\ config.levels = <<Level("project", NoValue, "name", "asc"),
                         Level("user", NoValue, "name", "desc")>>
    /\ Len(forest) = 2
    /\ forest[1].displayName = "Alpha"
    /\ forest[1].totalHours = 5 * SecondsPerHour
    /\ forest[1].entryCount = 2
    /\ Len(forest[1].children) = 2
    /\ forest[2].displayName = "Beta"
    /\ forest[2].totalHours = 1 * SecondsPerHour

Count(seq, Test(_)) == Len(SelectSeq(seq, Test))

\* C9: with collapseEmptyGroups false, each entry is in the subtree of
\* exactly one node at each configured level and is owned by exactly one
\* node, so the entries owned across the forest are as many as the input.
C9_EveryEntryOnce ==
    (Built /\ ~config.collapseEmptyGroups) =>
        /\ Len(ForestIds(forest)) = Len(entries)
        /\ \A e \in Range(entries) :
              /\ Count(AllNodes(forest), LAMBDA n : e.id \in Range(n.entries)) = 1
              /\ Count(ForestIds(forest), LAMBDA id : id = e.id) = 1
              /\ \A d \in 0..(Len(config.levels) - 1) :
                    Count(AllNodes(forest),
                          LAMBDA n : n.level = d /\ e.id \in Range(SubtreeIds(n))) = 1

\* C9 witness: grouped by user and then project, the entry without an author
\* is owned by a project node below the Unassigned node.
C9_Witness ==
    /\ op = "build"
    /\ ~config.collapseEmptyGroups
    /\ Len(entries) = 3
    /\ Len(config.levels) = 2
    /\ \E i \in DOMAIN forest :
          /\ forest[i].value = Unassigned.id
          /\ forest[i].entries = << >>
          /\ Len(forest[i].children) = 1
          /\ forest[i].children[1].entries = <<"e3">>

\* the sort keys of the siblings are pairwise distinct, at every level
RECURSIVE DistinctSortKeys(_, _)
DistinctSortKeys(nodes, i) ==
    /\ \A a, b \in DOMAIN nodes :
          a # b => SortKey(nodes[a], config.levels[i].sortBy)
                   # SortKey(nodes[b], config.levels[i].sortBy)
    /\ \A a \in DOMAIN nodes : DistinctSortKeys(nodes[a].children, i + 1)

NoTiedSiblings == Len(config.levels) = 0 \/ DistinctSortKeys(forest, 1)

\* a forest in which the entries of each node are taken as a set
RECURSIVE EntriesUnordered(_)
EntriesUnordered(nodes) ==
    [i \in DOMAIN nodes |->
        [nodes[i] EXCEPT !.entries = Range(nodes[i].entries),
                         !.children = EntriesUnordered(nodes[i].children)]]

C11_AcceptedRequestHasValidParts ==
    (op \in {"isTimesheetsRequest", "isExportRequest"} /\ outcome = Returned(TRUE)) =>
        /\ isFilterState(Get(data, "filters"))
        /\ isGroupingConfig(Get(data, "grouping"))

(***************************************************************************)
(* The formatted time string                                               *)
(***************************************************************************)
\* "<H>h <M>m" with the parts that are zero left out
CanonicalTime(h, m) ==
    JoinWithSpace((IF h >= 1 THEN <<NumberToString(h) \o <<"h">>>> ELSE << >>)
                  \o (IF m >= 1 THEN <<NumberToString(m) \o <<"m">>>> ELSE << >>))

\* C12: for every h >= 0 the string formatHoursAsJiraTime returns is '0m', or
\* an optional '<H>h' with H >= 1 followed by an optional '<M>m' with
\* 1 <= M <= 59, at least one of them, joined by one space: the minutes
\* component never reaches 60.
C12_CanonicalForm ==
    op = "formatHoursAsJiraTime" =>
        \/ timeStr = <<"0", "m">>
        \/ \E h \in 0..(MaxWholeHours + 1) : \E m \in 0..(MinutesPerHour - 1) :
              /\ h >= 1 \/ m >= 1
              /\ timeStr = CanonicalTime(h, m)

(***************************************************************************)
(* The sanitizers                                                          *)
(***************************************************************************)
\* C13: the result of sanitizeSearchText contains no '<' or '>', has no
\* leading or trailing whitespace, and sanitizing it again changes nothing.
C13_SearchTextCleanAndIdempotent ==
    /\ op \in {"sanitizeSearchText", "sanitizeSearchTextAgain"} =>
          /\ \A i \in DOMAIN clean : clean[i] \notin {"<", ">"}
          /\ Len(clean) > 0 =>
                clean[1] \notin WhiteSpace /\ clean[Len(clean)] \notin WhiteSpace
    /\ op = "sanitizeSearchTextAgain" => clean = text

\* C14: the result of sanitizeFileName contains only letters, digits, '.',
\* '-' and '_', has no two consecutive underscores, neither starts nor ends
\* with an underscore, and sanitizing it again changes nothing.
C14_FileNameCleanAndIdempotent ==
    /\ op \in {"sanitizeFileName", "sanitizeFileNameAgain"} =>
          /\ \A i \in DOMAIN clean : clean[i] \in FileNameChars \cup {"_"}
          /\ \A i \in 1..(Len(clean) - 1) : ~(clean[i] = "_" /\ clean[i + 1] = "_")
          /\ Len(clean) > 0 => clean[1] # "_" /\ clean[Len(clean)] # "_"
    /\ op = "sanitizeFileNameAgain" => clean = text

\* C14 witness: "a _Z" becomes "a__Z" and then "a_Z".
C14_Witness ==
    /\ op = "sanitizeFileName"
    /\ text = <<"a", " ", "_", "Z">>
    /\ clean = <<"a", "_", "Z">>

(***************************************************************************)
(* The default constructors                                                *)
(***************************************************************************)
\* the characters of date strings in code unit order
DateCharOrder == <<"-">> \o Digits

CharRank(c) == CHOOSE i \in DOMAIN DateCharOrder : DateCharOrder[i] = c

\* a <= b for two strings of date characters, compared as JavaScript
\* compares strings
DateStringLeq(a, b) ==
    \/ /\ Len(a) <= Len(b)
       /\ \A i \in 1..Len(a) : SubSeq(a, i, i) = SubSeq(b, i, i)
    \/ \E i \in 1..Len(a) :
          /\ i <= Len(b)
          /\ \A j \in 1..(i - 1) : SubSeq(a, j, j) = SubSeq(b, j, j)
          /\ CharRank(SubSeq(a, i, i)) < CharRank(SubSeq(b, i, i))

\* C15: the default grouping configuration is accepted by
\* validateGroupingConfig and has no level with dateGroupingType on a
\* non-date dimension or without it on a date dimension; the default filter
\* state is accepted by FilterStateSchema and its dateRange has
\* startDate <= endDate, also when a day boundary lies between the reads.
C15_DefaultsAreValid ==
    /\ op \in {"createDefaultGroupingConfig", "validateDefaultGroupingConfig"} =>
          /\ Len(LevelsOf(data)) >= 1
          /\ \A i \in DOMAIN LevelsOf(data) :
                /\ ~DateTypeWithoutDate(LevelsOf(data)[i])
                /\ ~DateWithoutDateType(LevelsOf(data)[i])
    /\ op = "validateDefaultGroupingConfig" => outcome = Returned(data)
    /\ op \in {"createDefaultFilterState", "validateDefaultFilterState"} =>
          /\ isFilterState(data)
          /\ DateStringLeq(Get(Get(data, "dateRange"), "startDate").v,
                           Get(Get(data, "dateRange"), "endDate").v)
    /\ op = "validateDefaultFilterState" => outcome = Returned(data)

\* C15 witness: the clock passes midnight at the end of 2023 between the two
\* reads; the filter state dated 2023-12-31 to 2024-01-01 is accepted.
C15_Witness ==
    /\ op = "validateDefaultFilterState"
    /\ clock[1].day < clock[2].day
    /\ Get(Get(data, "dateRange"), "startDate") = Str("2023-12-31")
    /\ Get(Get(data, "dateRange"), "endDate") = Str("2024-01-01")
    /\ outcome = Returned(data)

====
